---- MODULE Spec2Model ----
(***************************************************************************)
(* Model of packages/stores/src/core/keyring.ts: the foreground KeyRingStore *)
(* (status, keyRingType, multiKeyStoreInfo, selectablesMap) and the          *)
(* per-chain KeyRingSelectablesStore, their mobx flows suspended at          *)
(* requester.sendMessage, and the background key ring that answers them.     *)
(***************************************************************************)
EXTENDS Integers, Sequences, FiniteSets, TLC

\* ------------------------------------------------------------------ bounds

MaxCmds == 2          \* commands the surrounding program issues in one run
MaxInFlight == 2      \* flows the surrounding program keeps suspended at once
MaxStores == 2        \* key stores the background key ring holds
MaxFaults == 1        \* background-internal faults (rejections of a valid request)
MaxInteractions == 2  \* "enable key ring" interactions ever raised

\* ------------------------------------------------------ chains and key kinds

Chains == {"c1", "c2"}

\* chainInfo.bip44 followed by chainInfo.alternativeBIP44s, as coin types:
\* c1 declares no alternative path, c2 declares one.
ChainPaths(c) == IF c = "c1" THEN <<118>> ELSE <<118, 60>>

Kinds == {"mnemonic", "ledger"}

Passwords == {"good", "bad"}

\* ------------------------------------------------------ sequence helpers

SeqRemove(s, i) ==
  IF i > Len(s) \/ i < 1 THEN s
  ELSE SubSeq(s, 1, i - 1) \o SubSeq(s, i + 1, Len(s))

RECURSIVE SeqWithout(_, _)
SeqWithout(s, x) ==
  IF s = <<>> THEN <<>>
  ELSE IF Head(s) = x THEN SeqWithout(Tail(s), x)
  ELSE <<Head(s)>> \o SeqWithout(Tail(s), x)

\* ------------------------------------------------- the background key ring
\* auth = [status, stores, sel, interactions, raised, faults]
\*   stores: the key stores in background order, each [type, coinTypeForChain]
\*   sel:    index of the selected key store, 0 when there is none

KeyStore(kind) == [type |-> kind, coinTypeForChain |-> {}]

BgInfo(a) ==
  [i \in 1..Len(a.stores) |->
     [type |-> a.stores[i].type,
      coinTypeForChain |-> a.stores[i].coinTypeForChain,
      selected |-> (i = a.sel)]]

BgType(a) == IF a.sel = 0 THEN "none" ELSE a.stores[a.sel].type

BgDelete(a, i) ==
  LET rest == SeqRemove(a.stores, i)
      sel2 == IF i = a.sel THEN (IF Len(rest) > 0 THEN 1 ELSE 0)
              ELSE IF i < a.sel THEN a.sel - 1 ELSE a.sel
  IN [a EXCEPT !.stores = rest, !.sel = sel2,
               !.status = IF Len(rest) = 0 THEN "empty" ELSE @]

BgCandidates(a, c) ==
  IF c \in a.stores[a.sel].coinTypeForChain THEN <<>> ELSE ChainPaths(c)

NoResp == [status |-> "-", type |-> "-", info |-> <<>>, list |-> <<>>]

Reply(a, fld, v) == [ok |-> TRUE, auth |-> a, resp |-> [NoResp EXCEPT ![fld] = v]]
Reject(a) == [ok |-> FALSE, auth |-> a, resp |-> NoResp]

\* The background's answer to message m = [type, kind, index, password, chainId, id].
BgHandle(a, m) ==
  CASE m.type = "restore" ->
         [ok |-> TRUE, auth |-> a,
          resp |-> [NoResp EXCEPT !.status = a.status, !.type = BgType(a),
                                  !.info = BgInfo(a)]]
    [] m.type = "create" ->
         IF a.status # "empty" THEN Reject(a)
         ELSE LET a2 == [a EXCEPT !.stores = <<KeyStore(m.kind)>>, !.sel = 1,
                                  !.status = "unlocked"]
              IN Reply(a2, "status", a2.status)
    [] m.type = "add" ->
         IF a.status # "unlocked" THEN Reject(a)
         ELSE LET a2 == [a EXCEPT !.stores = Append(@, KeyStore(m.kind))]
              IN Reply(a2, "info", BgInfo(a2))
    [] m.type = "change" ->
         IF a.status # "unlocked" \/ m.index \notin 1..Len(a.stores) THEN Reject(a)
         ELSE LET a2 == [a EXCEPT !.sel = m.index]
              IN Reply(a2, "info", BgInfo(a2))
    [] m.type = "lock" ->
         IF a.status # "unlocked" THEN Reject(a)
         ELSE Reply([a EXCEPT !.status = "locked"], "status", "locked")
    [] m.type = "unlock" ->
         IF a.status # "locked" \/ m.password # "good" THEN Reject(a)
         ELSE Reply([a EXCEPT !.status = "unlocked"], "status", "unlocked")
    [] m.type = "show" ->
         IF a.status # "unlocked" \/ m.password # "good"
            \/ m.index \notin 1..Len(a.stores) THEN Reject(a)
         ELSE Reply(a, "status", a.status)
    [] m.type = "delete" ->
         IF a.status # "unlocked" \/ m.password # "good"
            \/ m.index \notin 1..Len(a.stores) THEN Reject(a)
         ELSE LET a2 == BgDelete(a, m.index)
              IN [ok |-> TRUE, auth |-> a2,
                  resp |-> [NoResp EXCEPT !.status = a2.status, !.info = BgInfo(a2)]]
    [] m.type = "getType" -> Reply(a, "type", BgType(a))
    [] m.type = "getIsSet" ->
         IF a.status # "unlocked" \/ a.sel = 0 THEN Reject(a)
         ELSE Reply(a, "list", BgCandidates(a, m.chainId))
    [] m.type = "setCoinType" ->
         IF a.sel = 0 THEN Reject(a)
         ELSE LET a2 == [a EXCEPT !.stores[a.sel].coinTypeForChain = @ \cup {m.chainId}]
              IN Reply(a2, "status", a2.status)
    [] m.type = "getInfo" -> Reply(a, "info", BgInfo(a))
    [] m.type = "approve" ->
         Reply([a EXCEPT !.interactions = SeqWithout(@, m.id)], "status", a.status)

\* ------------------------------------------------------------- variables

VARIABLES
  status,             \* KeyRingStore.status
  keyRingType,        \* KeyRingStore.keyRingType
  multiKeyStoreInfo,  \* KeyRingStore.multiKeyStoreInfo
  selectablesMap,     \* KeyRingStore.selectablesMap, in insertion order
  pending,            \* the suspended flows, in the order their requests were sent
  auth,               \* the background key ring and the interaction store
  cmds,               \* commands issued so far
  observed,           \* what the last step did: flows ended, refreshes started, events
  seenType,           \* per chain, the keyRingType its last refresh read
  lastStatus          \* the status carried by the last answer that carried one

vars == <<status, keyRingType, multiKeyStoreInfo, selectablesMap, pending, auth,
          cmds, observed, seenType, lastStatus>>

\* ------------------------------------------------------------------ flows
\* A suspended flow: the generator's position (op, pc), its arguments and
\* locals, and what it has assigned so far.
\*   caller:  for setKeyStoreCoinType, the chain whose refresh awaits it ("-": none)
\*   saved:   the status of the first response (setKeyStoreCoinType's local);
\*            for changeKeyRing, the type of its second response
\*   savedInfo: the inventory the flow was answered with
\*   datas:   unlock's snapshot of interactionStore.getDatas, todo: what is left of it
\*   wrote:   the fields the flow has assigned; changed: those whose value changed

Flow(op) ==
  [op |-> op, pc |-> 1, kind |-> "-", index |-> 0, password |-> "-",
   chainId |-> "-", coinType |-> 0, caller |-> "-",
   saved |-> "-", savedInfo |-> <<>>, datas |-> <<>>, todo |-> <<>>, approved |-> <<>>,
   wrote |-> {}, changed |-> {}]

\* The message a suspended flow is waiting on.
Request(f) ==
  LET m == [type |-> "-", kind |-> f.kind, index |-> f.index, password |-> f.password,
            chainId |-> f.chainId, id |-> 0]
  IN CASE f.op = "restore" -> [m EXCEPT !.type = "restore"]
       [] f.op = "create" -> [m EXCEPT !.type = IF f.pc = 1 THEN "create" ELSE "getType"]
       [] f.op = "add" -> [m EXCEPT !.type = "add"]
       [] f.op = "change" -> [m EXCEPT !.type = IF f.pc = 1 THEN "change" ELSE "getType"]
       [] f.op = "lock" -> [m EXCEPT !.type = "lock"]
       [] f.op = "unlock" ->
            IF f.pc = 1 THEN [m EXCEPT !.type = "unlock"]
            ELSE [m EXCEPT !.type = "approve", !.id = Head(f.todo)]
       [] f.op = "show" -> [m EXCEPT !.type = "show"]
       [] f.op = "delete" -> [m EXCEPT !.type = IF f.pc = 1 THEN "delete" ELSE "getType"]
       [] f.op = "setCoinType" ->
            [m EXCEPT !.type = IF f.pc = 1 THEN "setCoinType" ELSE "getInfo"]
       [] f.op = "refresh" -> [m EXCEPT !.type = "getIsSet"]

\* ------------------------------------------------- one step of local code
\* L is the foreground while one uninterrupted run of local code executes:
\* the store's fields, the flow that is running (cur), the requests it sent
\* (out), and what the run did (ended, started, events).

Resolver(c) ==
  [chainId |-> c, isInitializing |-> FALSE, isKeyStoreCoinTypeSet |-> FALSE,
   selectables |-> <<>>]

Registered(map) == {map[i].chainId : i \in 1..Len(map)}

IndexOf(map, c) == CHOOSE i \in 1..Len(map) : map[i].chainId = c

Local(f) ==
  [status |-> status, keyRingType |-> keyRingType,
   multiKeyStoreInfo |-> multiKeyStoreInfo, selectablesMap |-> selectablesMap,
   cur |-> f, out |-> <<>>, ended |-> <<>>, started |-> <<>>, events |-> <<>>,
   seenType |-> seenType]

\* An assignment to a field of the KeyRingStore by the running flow.
Assign(L, fld, v) ==
  [L EXCEPT ![fld] = v,
            !.cur.wrote = @ \cup {fld},
            !.cur.changed = IF L[fld] = v THEN @ ELSE @ \cup {fld}]

\* The running flow yields on a boundary call: it is suspended at pc.
Suspend(L, pc) == [L EXCEPT !.out = Append(@, [L.cur EXCEPT !.pc = pc])]

\* The running flow returns, or throws the rejection it was resumed with.
Finish(L, outcome) ==
  [L EXCEPT !.ended = Append(@, [flow |-> L.cur, outcome |-> outcome])]

\* window.dispatchEvent(new Event(e)), with what a listener reads of the store.
DispatchEvent(L, e) ==
  [L EXCEPT !.events = Append(@, [name |-> e, status |-> L.status,
                                  type |-> L.keyRingType,
                                  info |-> L.multiKeyStoreInfo])]

\* ------------------------------------------------ KeyRingSelectablesStore

Res(L, c) == L.selectablesMap[IndexOf(L.selectablesMap, c)]

SetRes(L, c, r) == [L EXCEPT !.selectablesMap[IndexOf(L.selectablesMap, c)] = r]

\* needSelectCoinType without the test of isInitializing.
needSelectCoinTypeWhileInitializing(r) ==
  IF Len(ChainPaths(r.chainId)) - 1 = 0 THEN FALSE
  ELSE ~r.isKeyStoreCoinTypeSet

\* The computed needSelectCoinType of resolver r.
needSelectCoinType(r) ==
  IF Len(ChainPaths(r.chainId)) - 1 = 0 THEN FALSE
  ELSE ~r.isInitializing /\ ~r.isKeyStoreCoinTypeSet

\* The refresh flow of chain c as it stands once it has passed line 90.
RefreshFlow(c, type) ==
  [Flow("refresh") EXCEPT !.chainId = c, !.kind = type, !.wrote = {"isInitializing"}]

\* What a refresh read when it started.
Started(L, c, sent) ==
  [chainId |-> c, type |-> L.keyRingType, status |-> L.status,
   info |-> L.multiKeyStoreInfo, sent |-> sent]

\* refresh() without the test of keyRingType at its head: it always queries.
refreshWithoutBypass(L, c) ==
  [SetRes([L EXCEPT !.seenType[c] = L.keyRingType], c,
          [Res(L, c) EXCEPT !.isInitializing = TRUE])
     EXCEPT !.started = Append(@, Started(L, c, TRUE)),
            !.out = Append(@, RefreshFlow(c, L.keyRingType))]

\* refresh(), from the call to its first yield (or its return).
refresh(L, c) ==
  LET L1 == [L EXCEPT !.seenType[c] = L.keyRingType]
  IN IF L.keyRingType # "mnemonic"
     THEN [SetRes(L1, c, [Res(L, c) EXCEPT !.isInitializing = FALSE,
                                           !.isKeyStoreCoinTypeSet = TRUE,
                                           !.selectables = <<>>])
             EXCEPT !.started = Append(@, Started(L, c, FALSE))]
     ELSE [SetRes(L1, c, [Res(L, c) EXCEPT !.isInitializing = TRUE])
             EXCEPT !.started = Append(@, Started(L, c, TRUE)),
                    !.out = Append(@, RefreshFlow(c, L.keyRingType))]

\* this.selectablesMap.forEach((selectables) => selectables.refresh())
RECURSIVE refreshFrom(_, _)
refreshFrom(L, i) ==
  IF i > Len(L.selectablesMap) THEN L
  ELSE refreshFrom(refresh(L, L.selectablesMap[i].chainId), i + 1)

refreshAll(L) == refreshFrom(L, 1)

\* setKeyStoreCoinType(), from the call to its first yield.
setKeyStoreCoinType(L, c, coinType, caller) ==
  [L EXCEPT !.out = Append(@, [Flow("setCoinType") EXCEPT !.chainId = c,
                                                          !.coinType = coinType,
                                                          !.caller = caller])]

\* refresh() committing the first selectable whenever there is one.
refreshResumeCommitsFirst(L, r) ==
  LET c == L.cur.chainId
  IN IF Len(r.resp.list) = 0
     THEN Finish([SetRes(L, c, [Res(L, c) EXCEPT !.isKeyStoreCoinTypeSet = TRUE,
                                                 !.isInitializing = FALSE])
                    EXCEPT !.cur.wrote = @ \cup {"_isKeyStoreCoinTypeSet"}], "ok")
     ELSE setKeyStoreCoinType(L, c, r.resp.list[1], c)

\* refresh() returning early, before line 115, when no selectable is answered.
refreshResumeReturnsEarly(L, r) ==
  IF Len(r.resp.list) = 0
  THEN Finish([SetRes(L, L.cur.chainId,
                      [Res(L, L.cur.chainId) EXCEPT !.isKeyStoreCoinTypeSet = TRUE])
                 EXCEPT !.cur.wrote = @ \cup {"_isKeyStoreCoinTypeSet"}], "ok")
  ELSE refreshResumeCommitsFirst(L, r)

\* refresh() resumed with the selectables.
refreshResume(L, r) ==
  LET c == L.cur.chainId
      seletables == r.resp.list
      res == Res(L, c)
  IN IF Len(seletables) = 0
     THEN Finish([SetRes(L, c, [res EXCEPT !.isKeyStoreCoinTypeSet = TRUE,
                                            !.isInitializing = FALSE])
                    EXCEPT !.cur.wrote = @ \cup {"_isKeyStoreCoinTypeSet"}], "ok")
     ELSE IF Len(seletables) = 1
     THEN setKeyStoreCoinType(L, c, seletables[1], c)
     ELSE Finish([SetRes(L, c, [res EXCEPT !.selectables = seletables,
                                            !.isKeyStoreCoinTypeSet = FALSE,
                                            !.isInitializing = FALSE])
                    EXCEPT !.cur.wrote = @ \cup {"_selectables", "_isKeyStoreCoinTypeSet"}],
                 "ok")

\* refresh() resumed after the setKeyStoreCoinType it yielded on has returned.
refreshCommitted(L, c) ==
  Finish([SetRes(L, c, [Res(L, c) EXCEPT !.isKeyStoreCoinTypeSet = TRUE,
                                         !.isInitializing = FALSE])
            EXCEPT !.cur = [RefreshFlow(c, "mnemonic")
                              EXCEPT !.wrote = @ \cup {"_isKeyStoreCoinTypeSet"}]],
         "ok")

\* A rejection that unlock catches, going on to the unlock event.
RejectedUnlockSignals(L) ==
  IF L.cur.op = "unlock"
  THEN Finish(DispatchEvent(L, "keplr_keystoreunlock"), "rejected")
  ELSE Finish(L, "rejected")

\* A flow resumed with a rejection: no flow catches it. A refresh that awaits
\* the rejected setKeyStoreCoinType is thrown into in turn.
Rejected(L) ==
  LET L1 == Finish(L, "rejected")
  IN IF L.cur.op = "setCoinType" /\ L.cur.caller # "-"
     THEN Finish([L1 EXCEPT !.cur = RefreshFlow(L.cur.caller, "mnemonic")], "rejected")
     ELSE L1

\* ------------------------------------------------------------ KeyRingStore

restoreResume(L, r) ==
  Finish(Assign(Assign(Assign(L, "status", r.resp.status),
                       "keyRingType", r.resp.type),
                "multiKeyStoreInfo", r.resp.info), "ok")

createKeyStatus(L, r) == Suspend(Assign(L, "status", r.resp.status), 2)

createKeyType(L, r) == Finish(Assign(L, "keyRingType", r.resp.type), "ok")

addKeyResume(L, r) == Finish(Assign(L, "multiKeyStoreInfo", r.resp.info), "ok")

changeKeyRingInfo(L, r) ==
  Suspend([Assign(L, "multiKeyStoreInfo", r.resp.info)
             EXCEPT !.cur.savedInfo = r.resp.info], 2)

\* changeKeyRing refreshing the resolvers before it assigns keyRingType.
changeKeyRingTypeRefreshFirst(L, r) ==
  Finish(Assign(refreshAll(DispatchEvent([L EXCEPT !.cur.saved = r.resp.type],
                                         "keplr_keystorechange")),
                "keyRingType", r.resp.type), "ok")

changeKeyRingType(L, r) ==
  Finish(refreshAll(DispatchEvent(Assign([L EXCEPT !.cur.saved = r.resp.type],
                                         "keyRingType", r.resp.type),
                                  "keplr_keystorechange")), "ok")

lockResume(L, r) == Finish(Assign(L, "status", r.resp.status), "ok")

\* The loop over the interactions still to approve, and what follows it.
unlockLoop(L) ==
  IF L.cur.todo = <<>>
  THEN Finish(DispatchEvent(L, "keplr_keystoreunlock"), "ok")
  ELSE Suspend(L, 2)

unlockStatus(L, r) ==
  unlockLoop([Assign(L, "status", r.resp.status)
                EXCEPT !.cur.saved = r.resp.status,
                       !.cur.datas = r.auth.interactions,
                       !.cur.todo = r.auth.interactions])

\* unlock's loop stepping over a list that shrinks as it approves: every other
\* interaction is skipped.
unlockApprovedSkipping(L, r) ==
  unlockLoop([L EXCEPT !.cur.approved = Append(@, Head(L.cur.todo)),
                       !.cur.todo = IF Len(@) > 1 THEN Tail(Tail(@)) ELSE <<>>])

unlockApproved(L, r) ==
  unlockLoop([L EXCEPT !.cur.approved = Append(@, Head(L.cur.todo)),
                       !.cur.todo = Tail(@)])

\* showKeyRing ending the way changeKeyRing does: with the change event and a
\* refresh of the resolvers.
showKeyRingResumeSignals(L, r) ==
  Finish(refreshAll(DispatchEvent(L, "keplr_keystorechange")), "ok")

showKeyRingResume(L, r) == Finish(L, "ok")

\* deleteKeyRing dropping the deleted index from its own multiKeyStoreInfo
\* instead of taking the one of the answer.
deleteKeyRingResultLocally(L, r) ==
  Suspend(Assign(Assign(L, "status", r.resp.status),
                 "multiKeyStoreInfo", SeqRemove(L.multiKeyStoreInfo, L.cur.index)), 2)

deleteKeyRingResult(L, r) ==
  Suspend(Assign(Assign(L, "status", r.resp.status),
                 "multiKeyStoreInfo", r.resp.info), 2)

deleteKeyRingType(L, r) == Finish(Assign(L, "keyRingType", r.resp.type), "ok")

setKeyStoreCoinTypeStatus(L, r) == Suspend([L EXCEPT !.cur.saved = r.resp.status], 2)

setKeyStoreCoinTypeInfo(L, r) ==
  LET L1 == Assign(Assign([L EXCEPT !.cur.savedInfo = r.resp.info],
                          "multiKeyStoreInfo", r.resp.info),
                   "status", L.cur.saved)
      L2 == Finish(refreshAll(DispatchEvent(L1, "keplr_keystorechange")), "ok")
  IN IF L.cur.caller = "-" THEN L2 ELSE refreshCommitted(L2, L.cur.caller)

\* ---------------------------------------------------------------- actions

NothingObserved == [ended |-> <<>>, started |-> <<>>, events |-> <<>>]

\* The state after one run of local code that left the foreground as L, with
\* the flows in rest still suspended and the background as a.
Commit(L, rest, a) ==
  /\ status' = L.status
  /\ keyRingType' = L.keyRingType
  /\ multiKeyStoreInfo' = L.multiKeyStoreInfo
  /\ selectablesMap' = L.selectablesMap
  /\ seenType' = L.seenType
  /\ pending' = rest \o L.out
  /\ auth' = a
  /\ observed' = [ended |-> L.ended, started |-> L.started, events |-> L.events]

\* The surrounding program may issue one more command.
CanCall ==
  /\ cmds < MaxCmds
  /\ Len(pending) < MaxInFlight

\* The surrounding program calls a flow: it runs to its first yield.
Call(f) ==
  /\ cmds' = cmds + 1
  /\ Commit(Suspend(Local(f), 1), pending, auth)
  /\ UNCHANGED lastStatus

\* Key stores the background holds or is about to be asked for.
StoresAsked ==
  Len(auth.stores)
    + Cardinality({i \in 1..Len(pending) : pending[i].op \in {"create", "add"}
                                            /\ pending[i].pc = 1})

CreateKey(kind) ==
  /\ CanCall
  /\ StoresAsked < MaxStores
  /\ Call([Flow("create") EXCEPT !.kind = kind])

AddKey(kind) ==
  /\ CanCall
  /\ StoresAsked < MaxStores
  /\ Call([Flow("add") EXCEPT !.kind = kind])

ChangeKeyRing(index) ==
  /\ CanCall
  /\ Call([Flow("change") EXCEPT !.index = index])

Lock ==
  /\ CanCall
  /\ Call(Flow("lock"))

Unlock(password) ==
  /\ CanCall
  /\ Call([Flow("unlock") EXCEPT !.password = password])

ShowKeyRing(index, password) ==
  /\ CanCall
  /\ Call([Flow("show") EXCEPT !.index = index, !.password = password])

DeleteKeyRing(index, password) ==
  /\ CanCall
  /\ Call([Flow("delete") EXCEPT !.index = index, !.password = password])

SetKeyStoreCoinType(c, coinType) ==
  /\ CanCall
  /\ cmds' = cmds + 1
  /\ Commit(setKeyStoreCoinType(Local(Flow("-")), c, coinType, "-"), pending, auth)
  /\ UNCHANGED lastStatus

\* getKeyStoreSelectables() without the test of has(chainId): every call
\* constructs a resolver and sets it in the map.
getKeyStoreSelectablesWithoutHas(L, c) ==
  IF c \in Registered(L.selectablesMap) THEN refresh(SetRes(L, c, Resolver(c)), c)
  ELSE refresh([L EXCEPT !.selectablesMap = Append(@, Resolver(c))], c)

\* getKeyStoreSelectables(chainId): insert-if-absent; the constructor refreshes.
getKeyStoreSelectables(L, c) ==
  IF c \in Registered(L.selectablesMap) THEN L
  ELSE refresh([L EXCEPT !.selectablesMap = Append(@, Resolver(c))], c)

GetKeyStoreSelectables(c) ==
  /\ c \in Chains
  /\ Commit(getKeyStoreSelectables(Local(Flow("-")), c), pending, auth)
  /\ UNCHANGED <<cmds, lastStatus>>

\* The surrounding program calls refresh() on a resolver it holds.
Refresh(c) ==
  /\ c \in Registered(selectablesMap)
  /\ CanCall
  /\ cmds' = cmds + 1
  /\ Commit(refresh(Local(Flow("-")), c), pending, auth)
  /\ UNCHANGED lastStatus

\* A page asks for the key ring to be enabled while it is not unlocked: an
\* interaction waits for approval.
RaiseInteraction ==
  /\ auth.raised < MaxInteractions
  /\ auth.status # "unlocked"
  /\ auth' = [auth EXCEPT !.raised = @ + 1, !.interactions = Append(@, auth.raised + 1)]
  /\ observed' = NothingObserved
  /\ UNCHANGED <<status, keyRingType, multiKeyStoreInfo, selectablesMap, pending,
                 cmds, seenType, lastStatus>>

\* The i-th suspended flow is op, waiting at its pc-th boundary call.
Awaits(i, op, pc) ==
  /\ i \in 1..Len(pending)
  /\ pending[i].op = op
  /\ pending[i].pc = pc

\* The background's answer to the request of the i-th suspended flow; a fault
\* is a rejection of a request the background would otherwise serve.
Answer(i, fault) ==
  IF fault THEN Reject([auth EXCEPT !.faults = @ + 1])
  ELSE BgHandle(auth, Request(pending[i]))

\* The i-th suspended flow as it is resumed.
Resumed(i) == Local(pending[i])

\* The messages whose answer carries the key ring status: result.status of
\* restore, create*Key, lock, unlock and deleteKeyRing, and the status that
\* SetKeyStoreCoinTypeMsg returns.
StatusBearing == {"restore", "create", "lock", "unlock", "delete", "setCoinType"}

\* The i-th suspended flow is resumed with the background's answer: it runs on
\* to its next yield or its end, leaving the foreground as L, or is thrown
\* into when the answer is a rejection.
Deliver(i, fault, L) ==
  /\ fault => auth.faults < MaxFaults
  /\ Commit(IF Answer(i, fault).ok THEN L ELSE Rejected(Resumed(i)),
            SeqRemove(pending, i), Answer(i, fault).auth)
  /\ lastStatus' = IF Answer(i, fault).ok /\ Request(pending[i]).type \in StatusBearing
                   THEN Answer(i, fault).resp.status
                   ELSE lastStatus
  /\ UNCHANGED cmds

RestoreResponse(i, fault) ==
  /\ Awaits(i, "restore", 1)
  /\ Deliver(i, fault, restoreResume(Resumed(i), Answer(i, fault)))

CreateKeyResponse(i, fault) ==
  /\ Awaits(i, "create", 1)
  /\ Deliver(i, fault, createKeyStatus(Resumed(i), Answer(i, fault)))

CreateKeyTypeResponse(i, fault) ==
  /\ Awaits(i, "create", 2)
  /\ Deliver(i, fault, createKeyType(Resumed(i), Answer(i, fault)))

AddKeyResponse(i, fault) ==
  /\ Awaits(i, "add", 1)
  /\ Deliver(i, fault, addKeyResume(Resumed(i), Answer(i, fault)))

ChangeKeyRingResponse(i, fault) ==
  /\ Awaits(i, "change", 1)
  /\ Deliver(i, fault, changeKeyRingInfo(Resumed(i), Answer(i, fault)))

ChangeKeyRingTypeResponse(i, fault) ==
  /\ Awaits(i, "change", 2)
  /\ Deliver(i, fault, changeKeyRingType(Resumed(i), Answer(i, fault)))

LockResponse(i, fault) ==
  /\ Awaits(i, "lock", 1)
  /\ Deliver(i, fault, lockResume(Resumed(i), Answer(i, fault)))

UnlockResponse(i, fault) ==
  /\ Awaits(i, "unlock", 1)
  /\ Deliver(i, fault, unlockStatus(Resumed(i), Answer(i, fault)))

ApproveResponse(i, fault) ==
  /\ Awaits(i, "unlock", 2)
  /\ Deliver(i, fault, unlockApproved(Resumed(i), Answer(i, fault)))

ShowKeyRingResponse(i, fault) ==
  /\ Awaits(i, "show", 1)
  /\ Deliver(i, fault, showKeyRingResume(Resumed(i), Answer(i, fault)))

DeleteKeyRingResponse(i, fault) ==
  /\ Awaits(i, "delete", 1)
  /\ Deliver(i, fault, deleteKeyRingResult(Resumed(i), Answer(i, fault)))

DeleteKeyRingTypeResponse(i, fault) ==
  /\ Awaits(i, "delete", 2)
  /\ Deliver(i, fault, deleteKeyRingType(Resumed(i), Answer(i, fault)))

SetCoinTypeResponse(i, fault) ==
  /\ Awaits(i, "setCoinType", 1)
  /\ Deliver(i, fault, setKeyStoreCoinTypeStatus(Resumed(i), Answer(i, fault)))

SetCoinTypeInfoResponse(i, fault) ==
  /\ Awaits(i, "setCoinType", 2)
  /\ Deliver(i, fault, setKeyStoreCoinTypeInfo(Resumed(i), Answer(i, fault)))

RefreshResponse(i, fault) ==
  /\ Awaits(i, "refresh", 1)
  /\ Deliver(i, fault, refreshResume(Resumed(i), Answer(i, fault)))

\* --------------------------------------------------------- specifications

InitAuth ==
  { [status |-> "empty", stores |-> <<>>, sel |-> 0,
     interactions |-> <<>>, raised |-> 0, faults |-> 0],
    [status |-> "locked", stores |-> <<KeyStore("mnemonic")>>, sel |-> 1,
     interactions |-> <<>>, raised |-> 0, faults |-> 0],
    [status |-> "unlocked", stores |-> <<KeyStore("mnemonic"), KeyStore("ledger")>>,
     sel |-> 1, interactions |-> <<>>, raised |-> 0, faults |-> 0] }

\* The KeyRingStore as constructed: its fields hold their initial values and
\* restore() is suspended at its request.
Init ==
  /\ status = "notloaded"
  /\ keyRingType = "none"
  /\ multiKeyStoreInfo = <<>>
  /\ selectablesMap = <<>>
  /\ pending = <<Flow("restore")>>
  /\ auth \in InitAuth
  /\ cmds = 0
  /\ observed = NothingObserved
  /\ seenType = [c \in Chains |-> "-"]
  /\ lastStatus = "-"

Program ==
  \/ \E kind \in Kinds : CreateKey(kind)
  \/ \E kind \in Kinds : AddKey(kind)
  \/ \E index \in 1..MaxStores : ChangeKeyRing(index)
  \/ Lock
  \/ \E password \in Passwords : Unlock(password)
  \/ \E index \in 1..MaxStores : ShowKeyRing(index, "good")
  \/ \E index \in 1..MaxStores : DeleteKeyRing(index, "good")
  \/ \E c \in Chains : \E coinType \in {ChainPaths(c)[k] : k \in 1..Len(ChainPaths(c))} :
       SetKeyStoreCoinType(c, coinType)
  \/ \E c \in Chains : GetKeyStoreSelectables(c)
  \/ \E c \in Chains : Refresh(c)
  \/ RaiseInteraction

Response(i) ==
  \E fault \in BOOLEAN :
    \/ RestoreResponse(i, fault)
    \/ CreateKeyResponse(i, fault)
    \/ CreateKeyTypeResponse(i, fault)
    \/ AddKeyResponse(i, fault)
    \/ ChangeKeyRingResponse(i, fault)
    \/ ChangeKeyRingTypeResponse(i, fault)
    \/ LockResponse(i, fault)
    \/ UnlockResponse(i, fault)
    \/ ApproveResponse(i, fault)
    \/ ShowKeyRingResponse(i, fault)
    \/ DeleteKeyRingResponse(i, fault)
    \/ DeleteKeyRingTypeResponse(i, fault)
    \/ SetCoinTypeResponse(i, fault)
    \/ SetCoinTypeInfoResponse(i, fault)
    \/ RefreshResponse(i, fault)

\* The transport is FIFO and the background answers one request at a time: the
\* flow resumed is the one whose request was sent first.
Next == Program \/ Response(1)

Spec == Init /\ [][Next]_vars

\* The runs in which no call is rejected: the background serves the request of
\* the i-th suspended flow, and every call eventually settles.
AcceptedResponse(i) ==
  /\ i \in 1..Len(pending)
  /\ Answer(i, FALSE).ok
  /\ Response(i)
  /\ auth'.faults = auth.faults

NextAccepted == Program \/ AcceptedResponse(1)

\* AcceptedResponse(1) is enabled: a flow is suspended and the background
\* serves its request.
CanSettle == pending # <<>> /\ Answer(1, FALSE).ok

\* Weak fairness of AcceptedResponse(1), WF_vars(AcceptedResponse(1)), with its
\* enabling condition written out as CanSettle.
Settles == []<>(~CanSettle) \/ []<><<AcceptedResponse(1)>>_vars

SpecAccepted == Init /\ [][NextAccepted]_vars /\ Settles

\* The background may also answer the suspended flows in any order.
NextAnyOrder == Program \/ \E i \in 1..Len(pending) : Response(i)

SpecAnyOrder == Init /\ [][NextAnyOrder]_vars

\* ------------------------------------------------------------- properties

EndedFlows == {observed.ended[k] : k \in 1..Len(observed.ended)}

StartedNow == {observed.started[k] : k \in 1..Len(observed.started)}

EventNames == {observed.events[k].name : k \in 1..Len(observed.events)}

Resolvers == {selectablesMap[i] : i \in 1..Len(selectablesMap)}

\* A refresh of chain c is suspended: at its query, or at the
\* setKeyStoreCoinType it yielded on.
RefreshInFlight(c) ==
  \E i \in 1..Len(pending) :
    \/ pending[i].op = "refresh" /\ pending[i].chainId = c
    \/ pending[i].op = "setCoinType" /\ pending[i].caller = c

Commands == {"create", "add", "change", "lock", "unlock", "delete", "setCoinType"}

\* C1: a command that ends with a rejection has changed none of status,
\* keyRingType and multiKeyStoreInfo: nothing was written from an earlier
\* answer of the same command.
C1_RejectedCommandWroteNothing ==
  \A e \in EndedFlows :
    (e.flow.op \in Commands /\ e.outcome = "rejected") => e.flow.changed = {}

\* C2: an unlock whose Unlock request is rejected ends having assigned no
\* field, having approved no interaction, and without the unlock event.
C2_RejectedUnlockLeavesNoTrace ==
  \A e \in EndedFlows :
    (e.flow.op = "unlock" /\ e.flow.pc = 1 /\ e.outcome = "rejected") =>
      /\ e.flow.wrote = {}
      /\ e.flow.approved = <<>>
      /\ observed.events = <<>>

C2_Witness ==
  \E e \in EndedFlows :
    /\ e.flow.op = "unlock" /\ e.flow.pc = 1 /\ e.outcome = "rejected"
    /\ e.flow.password = "bad"
    /\ auth.status = "locked"
    /\ auth.interactions # <<>>

\* C3: a refresh that ends with a rejection has assigned neither
\* _isKeyStoreCoinTypeSet nor _selectables, and no resolver is left with
\* isInitializing set while no refresh of it is in flight.
C3_RefreshFailureClearsInitializing ==
  /\ \A e \in EndedFlows :
       (e.flow.op = "refresh" /\ e.outcome = "rejected") =>
         e.flow.wrote \subseteq {"isInitializing"}
  /\ \A r \in Resolvers : r.isInitializing => RefreshInFlight(r.chainId)

\* C4: while keyRingType is not "mnemonic", every registered resolver has
\* _isKeyStoreCoinTypeSet true and no selectables.
C4_NonMnemonicIsResolved ==
  keyRingType # "mnemonic" =>
    \A r \in Resolvers : r.isKeyStoreCoinTypeSet /\ r.selectables = <<>>

\* C5: a resolver with no refresh in flight does not have
\* _isKeyStoreCoinTypeSet true together with selectables.
C5_ResolvedExcludesSelectables ==
  \A r \in Resolvers :
    ~RefreshInFlight(r.chainId) => ~(r.isKeyStoreCoinTypeSet /\ r.selectables # <<>>)

\* C6: an unlock that ends normally has approved every interaction of its
\* snapshot, in the snapshot's order, and dispatches the unlock event once, in
\* the step that ends it; the event is dispatched by nothing else; and from
\* its first approval on, unlock has assigned status.
C6_UnlockFanOut ==
  /\ \A e \in EndedFlows :
       (e.flow.op = "unlock" /\ e.outcome = "ok") =>
         /\ e.flow.approved = e.flow.datas
         /\ "status" \in e.flow.wrote
         /\ Len(observed.events) = 1
         /\ observed.events[1].name = "keplr_keystoreunlock"
  /\ "keplr_keystoreunlock" \in EventNames =>
       \E e \in EndedFlows : e.flow.op = "unlock" /\ e.outcome = "ok"
  /\ \A i \in 1..Len(pending) :
       (pending[i].op = "unlock" /\ pending[i].pc = 2) =>
         /\ "status" \in pending[i].wrote
         /\ pending[i].todo # <<>>
         /\ pending[i].approved \o pending[i].todo = pending[i].datas

C6_Witness ==
  \E e \in EndedFlows :
    e.flow.op = "unlock" /\ e.outcome = "ok" /\ Len(e.flow.datas) >= 2

\* C7: for a chain with a single derivation path, at most one
\* SetKeyStoreCoinTypeMsg that a refresh of the chain committed is awaiting
\* its answer.
AutoCommits(c) ==
  {i \in 1..Len(pending) : /\ pending[i].op = "setCoinType"
                           /\ pending[i].pc = 1
                           /\ pending[i].caller = c}

C7_OneCommitPerCycle ==
  \A c \in Chains : Len(ChainPaths(c)) = 1 => Cardinality(AutoCommits(c)) <= 1

\* C8: when no flow is suspended, every registered resolver was last refreshed
\* against the current keyRingType.
C8_RefreshedAgainstCurrentType ==
  pending = <<>> => \A r \in Resolvers : seenType[r.chainId] = keyRingType

ReadNow ==
  StartedNow \cup {[chainId |-> "-", sent |-> FALSE, type |-> observed.events[k].type,
                    status |-> observed.events[k].status,
                    info |-> observed.events[k].info] : k \in 1..Len(observed.events)}

C10_NonMnemonicBypass ==
  /\ \A s \in StartedNow :
       s.type # "mnemonic" =>
         /\ ~s.sent
         /\ \E r \in Resolvers :
              /\ r.chainId = s.chainId
              /\ ~r.isInitializing
              /\ r.isKeyStoreCoinTypeSet
              /\ r.selectables = <<>>
  /\ \A i \in 1..Len(pending) :
       pending[i].op = "refresh" => pending[i].kind = "mnemonic"

C10_Witness ==
  \E s \in StartedNow :
    /\ s.type = "ledger"
    /\ s.chainId = "c2"
    /\ auth.status = "unlocked"
    /\ auth.sel # 0
    /\ BgCandidates(auth, "c2") # <<>>

\* C11: once every flow has ended, status is the status that the last answer
\* carrying one carried.
C11_StatusIsLastReported ==
  (pending = <<>> /\ lastStatus # "-") => status = lastStatus

\* C12: when a refresh that read keyRingType "mnemonic" is answered with two or
\* more selectables, the step ends it with _isKeyStoreCoinTypeSet false,
\* _selectables the answered sequence, isInitializing false and nothing sent,
\* and needSelectCoinType is true if the chain has an alternative path.
C12_AmbiguitySurfaced ==
  [][\A i \in 1..Len(pending) :
       ( /\ RefreshResponse(i, FALSE)
         /\ pending[i].kind = "mnemonic"
         /\ Answer(i, FALSE).ok
         /\ Len(Answer(i, FALSE).resp.list) >= 2 ) =>
         LET c == pending[i].chainId
             res == selectablesMap'[IndexOf(selectablesMap', c)]
         IN /\ ~res.isKeyStoreCoinTypeSet
            /\ res.selectables = Answer(i, FALSE).resp.list
            /\ ~res.isInitializing
            /\ pending' = SeqRemove(pending, i)
            /\ Len(observed'.ended) = 1
            /\ observed'.ended[1].flow.op = "refresh"
            /\ observed'.ended[1].outcome = "ok"
            /\ (Len(ChainPaths(c)) > 1 => needSelectCoinType(res))]_vars

C12_Witness ==
  \E e \in EndedFlows : \E res \in Resolvers :
    /\ e.flow.op = "refresh" /\ e.outcome = "ok"
    /\ "_selectables" \in e.flow.wrote
    /\ res.chainId = e.flow.chainId
    /\ Len(res.selectables) = 2
    /\ needSelectCoinType(res)

\* C13: getKeyStoreSelectables of a chain that is not registered appends one
\* resolver of that chain, leaves the others as they are and starts one refresh,
\* of the new resolver; of a registered chain it changes no resolver, sends
\* nothing and starts no refresh. Nothing else adds a resolver, and no step
\* removes, replaces or duplicates a registered chain.
C13_GetOrCreate ==
  [][/\ Len(selectablesMap') >= Len(selectablesMap)
     /\ \A i \in 1..Len(selectablesMap) :
          selectablesMap'[i].chainId = selectablesMap[i].chainId
     /\ Cardinality(Registered(selectablesMap')) = Len(selectablesMap')
     /\ Len(selectablesMap') > Len(selectablesMap) =>
          \E c \in Chains : GetKeyStoreSelectables(c) /\ c \notin Registered(selectablesMap)
     /\ \A c \in Chains :
          GetKeyStoreSelectables(c) =>
            IF c \in Registered(selectablesMap)
            THEN /\ selectablesMap' = selectablesMap
                 /\ pending' = pending
                 /\ observed'.started = <<>>
            ELSE /\ Len(selectablesMap') = Len(selectablesMap) + 1
                 /\ selectablesMap'[Len(selectablesMap')].chainId = c
                 /\ \A i \in 1..Len(selectablesMap) : selectablesMap'[i] = selectablesMap[i]
                 /\ Len(observed'.started) = 1
                 /\ observed'.started[1].chainId = c]_vars

C13_Witness ==
  /\ Len(selectablesMap) = 2
  /\ Len(observed.started) = 1
  /\ observed.started[1].chainId = selectablesMap[2].chainId
  /\ observed.started[1].sent
  /\ observed.ended = <<>>
  /\ \E i \in 1..Len(pending) :
       pending[i].op = "refresh" /\ pending[i].chainId = selectablesMap[1].chainId

\* The messages whose answer carries the MultiKeyStoreInfoWithSelected.
InfoBearing == {"restore", "add", "change", "delete", "getInfo"}

Selected(info) == {i \in 1..Len(info) : info[i].selected}

\* C14: whenever multiKeyStoreInfo is not empty and status is locked or
\* unlocked, exactly one of its key stores is selected; and every value
\* multiKeyStoreInfo takes is, as it is, the one of the answer received in that
\* step.
C14_OneSelectedVerbatim ==
  [][/\ (multiKeyStoreInfo' # <<>> /\ status' \in {"locked", "unlocked"}) =>
          Cardinality(Selected(multiKeyStoreInfo')) = 1
     /\ multiKeyStoreInfo' # multiKeyStoreInfo =>
          \E i \in 1..Len(pending) :
            /\ Request(pending[i]).type \in InfoBearing
            /\ Answer(i, FALSE).ok
            /\ multiKeyStoreInfo' = Answer(i, FALSE).resp.info
            /\ pending' = SeqRemove(pending, i) \o SubSeq(pending', Len(pending), Len(pending'))]_vars

C14_Witness ==
  /\ cmds = 1
  /\ status = "unlocked"
  /\ Len(multiKeyStoreInfo) = 1
  /\ multiKeyStoreInfo[1].selected
  /\ multiKeyStoreInfo[1].type = "ledger"
  /\ \E i \in 1..Len(pending) :
       /\ pending[i].op = "delete" /\ pending[i].pc = 2 /\ pending[i].index = 1
       /\ "multiKeyStoreInfo" \in pending[i].changed

\* A resolver of chain c in any state of its two flags.
AnyResolver ==
  {[Resolver(c) EXCEPT !.isInitializing = i, !.isKeyStoreCoinTypeSet = k] :
     c \in Chains, i \in BOOLEAN, k \in BOOLEAN}

\* C15: needSelectCoinType of a resolver, registered or in any other state of
\* its flags, is true exactly when its chain has an alternative path and the
\* resolver is neither initializing nor set; it is false for a chain with no
\* alternative path.
C15_NeedSelectCoinType ==
  \A res \in Resolvers \cup AnyResolver :
    /\ needSelectCoinType(res) <=>
         ( /\ Len(ChainPaths(res.chainId)) > 1
           /\ ~res.isInitializing
           /\ ~res.isKeyStoreCoinTypeSet )
    /\ Len(ChainPaths(res.chainId)) = 1 => ~needSelectCoinType(res)

C15_Witness ==
  \E res \in Resolvers : \E other \in Resolvers :
    /\ needSelectCoinType(res)
    /\ res.selectables # <<>>
    /\ Len(ChainPaths(other.chainId)) = 1
    /\ other.isInitializing
    /\ ~other.isKeyStoreCoinTypeSet

\* C16: a resolver with a refresh in flight, suspended at its query or at the
\* setKeyStoreCoinType it yielded on, has isInitializing true.
C16_InFlightIsInitializing ==
  \A res \in Resolvers : RefreshInFlight(res.chainId) => res.isInitializing

\* The background rejects the request sent first: the run leaves the runs in
\* which every call is served.
Refused == pending # <<>> /\ ~Answer(1, FALSE).ok

\* No flow is suspended and no resolver is initializing.
Quiescent ==
  /\ pending = <<>>
  /\ \A res \in Resolvers : ~res.isInitializing

\* C17: in a run in which every call is served, from some point on no flow is
\* suspended, so that no request is sent any more, and no resolver is
\* initializing.
C17_CascadeTerminates == <>[](Quiescent \/ Refused)

C17_Witness ==
  /\ Quiescent
  /\ Len(selectablesMap) = 2
  /\ auth.sel # 0
  /\ "c1" \in auth.stores[auth.sel].coinTypeForChain
  /\ \E e \in EndedFlows :
       /\ e.flow.op = "refresh" /\ e.outcome = "ok"
       /\ e.flow.chainId = "c1"
       /\ "_isKeyStoreCoinTypeSet" \in e.flow.wrote
  /\ \A res \in Resolvers : res.isKeyStoreCoinTypeSet <=> res.chainId = "c1"

\* C18: when keplr_keystoreunlock is dispatched, status is unlocked.
C18_UnlockSignalWhenUnlocked ==
  \A k \in 1..Len(observed.events) :
    observed.events[k].name = "keplr_keystoreunlock" =>
      observed.events[k].status = "unlocked"

\* C19: when no call was rejected, restore has been answered and no flow is
\* suspended, multiKeyStoreInfo and keyRingType are those of the background.
C19_MirrorsBackground ==
  (pending = <<>> /\ status # "notloaded") =>
    /\ multiKeyStoreInfo = BgInfo(auth)
    /\ keyRingType = BgType(auth)

\* The step dispatches no event, starts no refresh and leaves the resolvers.
Silent ==
  /\ observed'.events = <<>>
  /\ observed'.started = <<>>
  /\ selectablesMap' = selectablesMap

\* C20: the call of showKeyRing, lock or add*Key assigns nothing; the answer to
\* showKeyRing, served or rejected, leaves status, keyRingType,
\* multiKeyStoreInfo and the resolvers; the answer to lock leaves all but
\* status, and the answer to add*Key all but multiKeyStoreInfo; a rejection
\* leaves these too; and none of these steps dispatches an event, starts a
\* refresh or sends a request.
C20_Frame ==
  [][/\ ( \/ \E index \in 1..MaxStores : \E password \in Passwords :
               ShowKeyRing(index, password)
          \/ Lock
          \/ \E kind \in Kinds : AddKey(kind) ) =>
          /\ Silent
          /\ UNCHANGED <<status, keyRingType, multiKeyStoreInfo>>
          /\ Len(pending') = Len(pending) + 1
     /\ \A i \in 1..Len(pending) : \A fault \in BOOLEAN :
          /\ ShowKeyRingResponse(i, fault) =>
               /\ Silent
               /\ UNCHANGED <<status, keyRingType, multiKeyStoreInfo>>
               /\ pending' = SeqRemove(pending, i)
          /\ LockResponse(i, fault) =>
               /\ Silent
               /\ UNCHANGED <<keyRingType, multiKeyStoreInfo>>
               /\ ~Answer(i, fault).ok => UNCHANGED status
               /\ pending' = SeqRemove(pending, i)
          /\ AddKeyResponse(i, fault) =>
               /\ Silent
               /\ UNCHANGED <<status, keyRingType>>
               /\ ~Answer(i, fault).ok => UNCHANGED multiKeyStoreInfo
               /\ pending' = SeqRemove(pending, i)]_vars

C20_Witness ==
  /\ selectablesMap # <<>>
  /\ keyRingType = "mnemonic"
  /\ \E e \in EndedFlows : e.flow.op = "show" /\ e.outcome = "ok" /\ e.flow.wrote = {}

====
